---- MODULE Spec2Model ----
(***************************************************************************)
(* The request pipeline of src/main.rs: the layered service built in main  *)
(* (timeout, trace, pool extension, map_404, the nested routers, the body  *)
(* interceptors map_request / map_response and the handle_error closures), *)
(* one task per request.                                                   *)
(*                                                                         *)
(* A path is the sequence of its segments ("/api/user/list" is             *)
(* <<"api", "user", "list">>), a body is the sequence of the chunks its    *)
(* stream yields, a chunk a sequence of bytes.                             *)
(***************************************************************************)
EXTENDS Integers, Sequences, FiniteSets, TLC

\* ------------------------------------------------------------------ bounds
NumClients == 2
MaxChunks == 2

\* --------------------------------------------------------- program values
\* StatusCode::*
StatusOk == 200
StatusNotFound == 404
StatusMethodNotAllowed == 405
StatusRequestTimeout == 408
StatusInternalServerError == 500

\* "Hello,World"
HelloWorld ==
    <<72, 101, 108, 108, 111, 44, 87, 111, 114, 108, 100>>
\* {"code": 0, "msg": "not found"}
NotFoundJson ==
    <<123, 34, 99, 111, 100, 101, 34, 58, 32, 48, 44, 32, 34, 109, 115, 103,
      34, 58, 32, 34, 110, 111, 116, 32, 102, 111, 117, 110, 100, 34, 125>>
\* "request took too long"
TimeoutText ==
    <<114, 101, 113, 117, 101, 115, 116, 32, 116, 111, 111, 107, 32, 116, 111,
      111, 32, 108, 111, 110, 103>>
\* "Unhandled internal error"
InternalText ==
    <<85, 110, 104, 97, 110, 100, 108, 101, 100, 32, 105, 110, 116, 101, 114,
      110, 97, 108, 32, 101, 114, 114, 111, 114>>
\* "Unhandled internal error: " (the format string of the "/" service)
PublishErrPrefix ==
    <<85, 110, 104, 97, 110, 100, 108, 101, 100, 32, 105, 110, 116, 101, 114,
      110, 97, 108, 32, 101, 114, 114, 111, 114, 58, 32>>
\* "read file error"
UploadErrText ==
    <<114, 101, 97, 100, 32, 102, 105, 108, 101, 32, 101, 114, 114, 111, 114>>

\* What the environment supplies: the Display text of an io::Error
\* ("denied") and the content of a served file ("<p>").
IoErrorText ==
    <<100, 101, 110, 105, 101, 100>>
FileBytes ==
    <<60, 112, 62>>

TextPlain == {<<"content-type", "text/plain">>}
AppJson == {<<"Content-Type", "application/json">>}

\* ------------------------------------------------------------ input sets
Clients == 1..NumClients
Methods == {"GET", "POST"}

\* 'A', and the two bytes of U+00E9: each of the last two alone is not UTF-8.
ByteAlphabet == {65, 195, 169}

RECURSIVE SeqsUpTo(_, _)
SeqsUpTo(S, n) ==
    IF n = 0 THEN {<<>>}
    ELSE LET shorter == SeqsUpTo(S, n - 1)
         IN  shorter \cup {<<x>> \o s : x \in S, s \in {t \in shorter : Len(t) = n - 1}}

ChunkSet == {<<b>> : b \in ByteAlphabet}
BodySet == SeqsUpTo(ChunkSet, MaxChunks)

\* config.global.pool_size is a usize.
PoolSizes == {0, 1, 2}

Ids == {"42", "7"}

PathSet ==
    { <<"api", "pay", "pay_params">>, <<"api", "pay", "transfer_info">>,
      <<"api", "upload", "image">>,
      <<"api", "user", "list">>, <<"api", "user", "create">>,
      <<"api", "user", "login">>, <<"api", "user", "info">>,
      <<"api", "user", "update_password">>, <<"api", "user", "money">>,
      <<"api", "order", "create">>, <<"api", "order", "all">>,
      <<"api", "order", "list">>,
      <<"api", "product", "list">>, <<"api", "product", "home">>,
      <<"api", "product", "create">>, <<"api", "product", "delete">>,
      <<"api", "product", "detail">>,
      <<"api", "product", "earnings", "create">>,
      <<"api", "product", "earnings", "delete">>,
      <<"api", "product", "earnings", "find">>,
      <<"api">>, <<"api", "nope">>, <<"api", "user">>, <<"api", "user", "nope">>,
      <<"api", "list">>, <<"api", "product", "update">>,
      <<"api", "product", "earnings">>,
      <<"upload", "a.png">>, <<"upload">>, <<"index.html">>, <<>>,
      <<"user", "list">> }
    \cup { <<"api", "product", "update", id>> : id \in Ids }
    \cup { <<"api", "product", "update", id, "x">> : id \in Ids }

\* The requests of the runs with one client: every path with a short body,
\* and every body on a few paths.
FewBodies == { <<>>, <<<<65>>>> }
BodyPaths == { <<"api", "user", "create">>, <<"api", "nope">> }
InputSet ==
    (Methods \X PathSet \X FewBodies) \cup (Methods \X BodyPaths \X BodySet)

\* The requests of the runs with several clients at once.
PoolInputSet ==
    { <<"GET", <<"api", "user", "list">>, <<<<65>>>> >>,
      <<"GET", <<"index.html">>, <<>> >> }

\* ------------------------------------------------------------- the state
VARIABLES
    pool,      \* the deadpool Pool built in main: [id, max_size, checked_out]
    pools,     \* how many pools main has constructed
    pc,        \* where each client's request is in the layered service
    method,    \* the request's method
    path,      \* the request's path as received
    uri,       \* the path a nested router sees (prefix stripped)
    reqBody,   \* the chunks of the request body as the client sends them
    inbody,    \* the chunks the body stream has not yet yielded
    buf,       \* the bytes to_bytes has collected
    ext,       \* the request's extensions: the pool ids attached
    fwd,       \* the request map_request passed on to the routes
    matched,   \* what the /api routes resolved the request to
    hres,      \* the response given to map_response
    res,       \* the response (or the error in err) travelling outwards
    err,       \* the error of the Result travelling outwards
    errAt,     \* which body read failed
    out,       \* what the server gave the client
    outcomes,  \* how many results the Timeout service produced
    elapsed,   \* the deadline of the request has passed
    trace,     \* the stages the request went through, in order
    log        \* the body lines written by buffer_and_print

reqVars == <<method, path, reqBody>>
poolVars == <<pool, pools>>
vars == <<pool, pools, pc, method, path, uri, reqBody, inbody, buf, ext, fwd,
          matched, hres, res, err, errAt, out, outcomes, elapsed, trace, log>>

\* ------------------------------------------------------------- responses
NoHeaders == {}
NoResponse == [status |-> 0, headers |-> NoHeaders, body |-> <<>>]
NoRequest == [method |-> "", uri |-> <<>>, ext |-> {}, body |-> <<>>]
NoMatch == [kind |-> "none", line |-> 0, params |-> {}]
NoOutput == [kind |-> "none", res |-> NoResponse]

RECURSIVE Flatten(_)
\* The bytes a body yields: its chunks one after the other.
Flatten(chunks) ==
    IF chunks = <<>> THEN <<>> ELSE Head(chunks) \o Flatten(Tail(chunks))

\* Body::from(bytes): no chunk for no bytes, one chunk otherwise.
BodyFrom(bytes) == IF bytes = <<>> THEN <<>> ELSE <<bytes>>

\* (StatusCode, String) and &'static str as responses.
TextResponse(status, text) ==
    [status |-> status, headers |-> TextPlain, body |-> BodyFrom(text)]

\* The response of a router that found no route / no method.
EmptyResponse(status) ==
    [status |-> status, headers |-> NoHeaders, body |-> <<>>]

\* ------------------------------------------------------------ the pool
\* Pool::new(mgr, config.global.pool_size): nothing is checked out.
PoolNew(size) == [id |-> 1, max_size |-> size, checked_out |-> 0]

\* -------------------------------------------------------- body interceptor
\* One poll of hyper::body::to_bytes: the next chunk joins the bytes so far.
Collect(bytes, chunk) == bytes \o chunk

RECURSIVE to_bytes(_)
\* hyper::body::to_bytes on a body whose chunks are all at hand.
to_bytes(chunks) ==
    IF chunks = <<>> THEN <<>>
    ELSE Collect(Head(chunks), to_bytes(Tail(chunks)))

IsCont(b) == b \in 128..191

RECURSIVE Utf8Valid(_)
\* std::str::from_utf8(&bytes).is_ok()
Utf8Valid(s) ==
    IF s = <<>> THEN TRUE
    ELSE LET b == s[1]
             n == Len(s)
         IN  IF b < 128 THEN Utf8Valid(Tail(s))
             ELSE IF b \in 194..223
             THEN n >= 2 /\ IsCont(s[2]) /\ Utf8Valid(SubSeq(s, 3, n))
             ELSE IF b \in 224..239
             THEN /\ n >= 3
                  /\ IF b = 224 THEN s[2] \in 160..191
                     ELSE IF b = 237 THEN s[2] \in 128..159
                     ELSE IsCont(s[2])
                  /\ IsCont(s[3])
                  /\ Utf8Valid(SubSeq(s, 4, n))
             ELSE IF b \in 240..244
             THEN /\ n >= 4
                  /\ IF b = 240 THEN s[2] \in 144..191
                     ELSE IF b = 244 THEN s[2] \in 128..143
                     ELSE IsCont(s[2])
                  /\ IsCont(s[3])
                  /\ IsCont(s[4])
                  /\ Utf8Valid(SubSeq(s, 5, n))
             ELSE FALSE

\* A variant that keeps only the bytes it could decode.
buffer_and_print_lossy(direction, bytes) ==
    [bytes |-> SelectSeq(bytes, LAMBDA b : b < 128),
     lines |-> <<[direction |-> direction, body |-> bytes]>>]

\* buffer_and_print once to_bytes has the bytes: they are returned as they
\* are, and written to the log when they are UTF-8.
buffer_and_print(direction, bytes) ==
    [bytes |-> bytes,
     lines |-> IF Utf8Valid(bytes)
               THEN <<[direction |-> direction, body |-> bytes]>>
               ELSE <<>>]

\* ------------------------------------------------------------ map_404
CanonicalNotFound ==
    [status |-> StatusNotFound, headers |-> AppJson, body |-> BodyFrom(NotFoundJson)]

\* A variant that replaces the body and the headers and keeps the status.
map_404_keeps_status(response) ==
    IF \/ response.status = StatusNotFound
       \/ response.status = StatusMethodNotAllowed
    THEN [CanonicalNotFound EXCEPT !.status = response.status]
    ELSE response

\* A variant that forgets METHOD_NOT_ALLOWED.
map_404_only_404(response) ==
    IF response.status = StatusNotFound THEN CanonicalNotFound ELSE response

map_404(response) ==
    IF \/ response.status = StatusNotFound
       \/ response.status = StatusMethodNotAllowed
    THEN CanonicalNotFound
    ELSE response

\* --------------------------------------------------------- handle_error
\* A variant that answers every error with 408.
handle_error_always_408(error) ==
    TextResponse(StatusRequestTimeout, TimeoutText)

\* The closure given to handle_error on the /api router.
handle_error(error) ==
    IF error = "Elapsed"
    THEN TextResponse(StatusRequestTimeout, TimeoutText)
    ELSE TextResponse(StatusInternalServerError, InternalText)

\* The closures given to handle_error on the two file services.
handle_io_error(group) ==
    IF group = "publish"
    THEN TextResponse(StatusInternalServerError, PublishErrPrefix \o IoErrorText)
    ELSE TextResponse(StatusInternalServerError, UploadErrText)

\* ------------------------------------------------------------ the routes
Route(line, m, pattern) ==
    [kind |-> "route", line |-> line, method |-> m, pattern |-> pattern,
     router |-> <<>>]
Nest(prefix, router) ==
    [kind |-> "nest", line |-> 0, method |-> "", pattern |-> prefix,
     router |-> router]

\* Each route carries the source line that registers it; entries are in
\* the order of registration.
UserRouter ==
    << Route(79, "GET", <<"list">>), Route(80, "POST", <<"create">>),
       Route(81, "POST", <<"login">>), Route(82, "GET", <<"info">>),
       Route(83, "GET", <<"update_password">>), Route(84, "GET", <<"money">>) >>
OrderRouter ==
    << Route(89, "POST", <<"create">>), Route(90, "GET", <<"all">>),
       Route(91, "GET", <<"list">>) >>
ProductRouter ==
    << Route(96, "GET", <<"list">>), Route(97, "GET", <<"home">>),
       Route(98, "POST", <<"create">>), Route(99, "POST", <<"update", ":id">>),
       Route(100, "POST", <<"delete">>), Route(101, "GET", <<"detail">>),
       Route(102, "POST", <<"earnings", "create">>),
       Route(103, "POST", <<"earnings", "delete">>),
       Route(104, "GET", <<"earnings", "find">>) >>
ApiRouter ==
    << Route(73, "POST", <<"pay", "pay_params">>),
       Route(74, "POST", <<"pay", "transfer_info">>),
       Route(75, "POST", <<"upload", "image">>),
       Nest(<<"user">>, UserRouter), Nest(<<"order">>, OrderRouter),
       Nest(<<"product">>, ProductRouter) >>

IsParam(seg) == seg \in {":id"}
ParamName(seg) == IF seg = ":id" THEN "id" ELSE seg

\* PathPattern::full_match: every segment is matched, a parameter by any
\* segment.
FullMatch(pattern, p) ==
    /\ Len(pattern) = Len(p)
    /\ \A i \in 1..Len(pattern) : IsParam(pattern[i]) \/ pattern[i] = p[i]

\* PathPattern::prefix_match: the leading segments are matched.
PrefixMatch(pattern, p) ==
    /\ Len(pattern) <= Len(p)
    /\ \A i \in 1..Len(pattern) : IsParam(pattern[i]) \/ pattern[i] = p[i]

Captures(pattern, p) ==
    { <<ParamName(pattern[i]), p[i]>> : i \in {j \in 1..Len(pattern) : IsParam(pattern[j])} }

\* A variant that leaves the prefix on the path.
StripNothing(pattern, p) == p

\* The path a nested service sees: the matched prefix is taken off.
StripPrefix(pattern, p) == SubSeq(p, Len(pattern) + 1, Len(p))

RECURSIVE CallFrom(_, _, _, _)
\* The router's call, from entry i downwards: the entry registered last is
\* asked first, an entry whose path does not match hands on to the one before
\* it, a nested router answers for everything under its prefix, and a route
\* whose path matches answers 405 to a method it was not registered with.
CallFrom(router, i, m, p) ==
    IF i = 0 THEN [kind |-> "not_found", line |-> 0, params |-> {}]
    ELSE LET e == router[i]
         IN  IF e.kind = "route"
             THEN IF FullMatch(e.pattern, p)
                  THEN IF e.method = m
                       THEN [kind |-> "handler", line |-> e.line,
                             params |-> Captures(e.pattern, p)]
                       ELSE [kind |-> "method_not_allowed", line |-> e.line,
                             params |-> {}]
                  ELSE CallFrom(router, i - 1, m, p)
             ELSE IF PrefixMatch(e.pattern, p)
                  THEN CallFrom(e.router, Len(e.router), m, StripPrefix(e.pattern, p))
                  ELSE CallFrom(router, i - 1, m, p)

Resolve(router, m, p) == CallFrom(router, Len(router), m, p)

\* The service the outer router hands a path to: "/api" is asked first,
\* then "/upload", and "/" takes the rest.
Group(p) ==
    IF PrefixMatch(<<"api">>, p) THEN "api"
    ELSE IF PrefixMatch(<<"upload">>, p) THEN "upload"
    ELSE "publish"

\* ------------------------------------------------------------- the start
Idle(r) ==
    /\ pc[r] = "idle"
    /\ method[r] = "" /\ path[r] = <<>> /\ uri[r] = <<>>
    /\ reqBody[r] = <<>> /\ inbody[r] = <<>> /\ buf[r] = <<>>

Init ==
    /\ \E size \in PoolSizes : pool = PoolNew(size)
    /\ pools = 1
    /\ pc = [r \in Clients |-> "idle"]
    /\ method = [r \in Clients |-> ""]
    /\ path = [r \in Clients |-> <<>>]
    /\ uri = [r \in Clients |-> <<>>]
    /\ reqBody = [r \in Clients |-> <<>>]
    /\ inbody = [r \in Clients |-> <<>>]
    /\ buf = [r \in Clients |-> <<>>]
    /\ ext = [r \in Clients |-> {}]
    /\ fwd = [r \in Clients |-> NoRequest]
    /\ matched = [r \in Clients |-> NoMatch]
    /\ hres = [r \in Clients |-> NoResponse]
    /\ res = [r \in Clients |-> NoResponse]
    /\ err = [r \in Clients |-> "none"]
    /\ errAt = [r \in Clients |-> "none"]
    /\ out = [r \in Clients |-> NoOutput]
    /\ outcomes = [r \in Clients |-> 0]
    /\ elapsed = [r \in Clients |-> FALSE]
    /\ trace = [r \in Clients |-> <<>>]
    /\ log = [r \in Clients |-> <<>>]

\* The points where the task of a request waits: for the next chunk of the
\* request body, for the file system, for the response body.
Suspended == {"map_request", "serve_dir", "map_response"}

\* ------------------------------------------------------------ the server
\* hyper hands the service a request: method m, path p, body chunks b.
Accept(r, m, p, b) ==
    /\ pc[r] = "idle"
    /\ pc' = [pc EXCEPT ![r] = "timeout"]
    /\ method' = [method EXCEPT ![r] = m]
    /\ path' = [path EXCEPT ![r] = p]
    /\ uri' = [uri EXCEPT ![r] = p]
    /\ reqBody' = [reqBody EXCEPT ![r] = b]
    /\ inbody' = [inbody EXCEPT ![r] = b]
    /\ UNCHANGED <<poolVars, buf, ext, fwd, matched, hres, res, err, errAt, out,
                   outcomes, elapsed, trace, log>>

\* The Timeout service is called: the deadline starts, the inner service is
\* called.
TimeoutCall(r) ==
    /\ pc[r] = "timeout"
    /\ pc' = [pc EXCEPT ![r] = "trace"]
    /\ trace' = [trace EXCEPT ![r] = Append(@, "timeout")]
    /\ UNCHANGED <<poolVars, reqVars, uri, inbody, buf, ext, fwd, matched, hres,
                   res, err, errAt, out, outcomes, elapsed, log>>

\* TraceLayer::new_for_http(): the request passes.
TraceCall(r) ==
    /\ pc[r] = "trace"
    /\ pc' = [pc EXCEPT ![r] = "add_extension"]
    /\ trace' = [trace EXCEPT ![r] = Append(@, "trace")]
    /\ UNCHANGED <<poolVars, reqVars, uri, inbody, buf, ext, fwd, matched, hres,
                   res, err, errAt, out, outcomes, elapsed, log>>

\* A variant that attaches the pool to no request.
AddExtensionForgets(r) ==
    /\ pc[r] = "add_extension"
    /\ pc' = [pc EXCEPT ![r] = "router"]
    /\ trace' = [trace EXCEPT ![r] = Append(@, "add_extension")]
    /\ UNCHANGED <<poolVars, reqVars, uri, inbody, buf, ext, fwd, matched, hres,
                   res, err, errAt, out, outcomes, elapsed, log>>

\* AddExtensionLayer::new(pool): a clone of the handle joins the request's
\* extensions; nothing is checked out.
AddExtension(r) ==
    /\ pc[r] = "add_extension"
    /\ pc' = [pc EXCEPT ![r] = "router"]
    /\ ext' = [ext EXCEPT ![r] = @ \cup {pool.id}]
    /\ trace' = [trace EXCEPT ![r] = Append(@, "add_extension")]
    /\ UNCHANGED <<poolVars, reqVars, uri, inbody, buf, fwd, matched, hres,
                   res, err, errAt, out, outcomes, elapsed, log>>

\* The outer router: the request goes to the service nested at its prefix,
\* with the prefix taken off its path.
RouterCall(r) ==
    /\ pc[r] = "router"
    /\ LET g == Group(uri[r])
       IN  /\ pc' = [pc EXCEPT ![r] = IF g = "api" THEN "map_request" ELSE "serve_dir"]
           /\ uri' = [uri EXCEPT ![r] = IF g = "publish" THEN @ ELSE Tail(@)]
    /\ trace' = [trace EXCEPT ![r] = Append(@, "router")]
    /\ UNCHANGED <<poolVars, reqVars, inbody, buf, ext, fwd, matched, hres,
                   res, err, errAt, out, outcomes, elapsed, log>>

\* ------------------------------------------------------ the file services
\* service::get(ServeDir) with its handle_error: another method than GET is
\* answered 405; a GET finds the file, does not find it, or fails to read it,
\* and the failure is turned into a 500 response by the closure.
ServeDir(r, outcome) ==
    /\ pc[r] = "serve_dir"
    /\ method[r] # "GET" => outcome = "method_not_allowed"
    /\ method[r] = "GET" => outcome # "method_not_allowed"
    /\ pc' = [pc EXCEPT ![r] = "map_404"]
    /\ res' = [res EXCEPT ![r] =
                 CASE outcome = "method_not_allowed" -> EmptyResponse(StatusMethodNotAllowed)
                   [] outcome = "found" ->
                        [status |-> StatusOk, headers |-> NoHeaders, body |-> BodyFrom(FileBytes)]
                   [] outcome = "not_found" -> EmptyResponse(StatusNotFound)
                   [] outcome = "io_error" -> handle_io_error(Group(path[r]))]
    /\ matched' = [matched EXCEPT ![r] = [kind |-> outcome, line |-> 0, params |-> {}]]
    /\ errAt' = [errAt EXCEPT ![r] = IF outcome = "io_error" THEN "file" ELSE @]
    /\ trace' = [trace EXCEPT ![r] = @ \o <<"serve_dir", "handle_error">>]
    /\ UNCHANGED <<poolVars, reqVars, uri, inbody, buf, ext, fwd, hres,
                   err, out, outcomes, elapsed, log>>

ServeOutcomes == {"method_not_allowed", "found", "not_found", "io_error"}

\* ----------------------------------------------------------- the /api group
\* map_request, while to_bytes waits for the body: the next chunk arrives.
MapRequestRead(r) ==
    /\ pc[r] = "map_request"
    /\ inbody[r] # <<>>
    /\ buf' = [buf EXCEPT ![r] = Collect(@, Head(inbody[r]))]
    /\ inbody' = [inbody EXCEPT ![r] = Tail(@)]
    /\ UNCHANGED <<poolVars, reqVars, pc, uri, ext, fwd, matched, hres, res, err,
                   errAt, out, outcomes, elapsed, trace, log>>

\* A variant in which the failed request still reaches the routes.
MapRequestFailGoesOn(r) ==
    /\ pc[r] = "map_request"
    /\ pc' = [pc EXCEPT ![r] = "route"]
    /\ err' = [err EXCEPT ![r] = "io"]
    /\ errAt' = [errAt EXCEPT ![r] = "request"]
    /\ trace' = [trace EXCEPT ![r] = Append(@, "map_request")]
    /\ UNCHANGED <<poolVars, reqVars, uri, inbody, buf, ext, fwd, matched, hres,
                   res, out, outcomes, elapsed, log>>

\* map_request: the body stream fails, and `?` returns the error. The
\* AndThen layer passes an error on without calling map_response.
MapRequestFail(r) ==
    /\ pc[r] = "map_request"
    /\ pc' = [pc EXCEPT ![r] = "handle_error"]
    /\ err' = [err EXCEPT ![r] = "io"]
    /\ errAt' = [errAt EXCEPT ![r] = "request"]
    /\ trace' = [trace EXCEPT ![r] = Append(@, "map_request")]
    /\ UNCHANGED <<poolVars, reqVars, uri, inbody, buf, ext, fwd, matched, hres,
                   res, out, outcomes, elapsed, log>>

\* map_request: the body has ended; the bytes are logged if they are text
\* and the request goes on with the same parts and a body of these bytes.
MapRequestDone(r) ==
    /\ pc[r] = "map_request"
    /\ inbody[r] = <<>>
    /\ LET got == buffer_and_print("request", buf[r])
       IN  /\ fwd' = [fwd EXCEPT ![r] = [method |-> method[r], uri |-> uri[r],
                                         ext |-> ext[r], body |-> BodyFrom(got.bytes)]]
           /\ log' = [log EXCEPT ![r] = @ \o got.lines]
    /\ pc' = [pc EXCEPT ![r] = "route"]
    /\ trace' = [trace EXCEPT ![r] = Append(@, "map_request")]
    /\ UNCHANGED <<poolVars, reqVars, uri, inbody, buf, ext, matched, hres, res,
                   err, errAt, out, outcomes, elapsed>>

\* The /api router resolves the request it was passed.
ApiRoute(r) ==
    /\ pc[r] = "route"
    /\ LET m == Resolve(ApiRouter, fwd[r].method, fwd[r].uri)
           empty == EmptyResponse(IF m.kind = "not_found" THEN StatusNotFound
                                  ELSE StatusMethodNotAllowed)
       IN  /\ matched' = [matched EXCEPT ![r] = m]
           /\ pc' = [pc EXCEPT ![r] = IF m.kind = "handler" THEN "handler"
                                      ELSE "map_response"]
           /\ hres' = [hres EXCEPT ![r] = IF m.kind = "handler" THEN @ ELSE empty]
    /\ trace' = [trace EXCEPT ![r] = Append(@, "route")]
    /\ UNCHANGED <<poolVars, reqVars, uri, inbody, buf, ext, fwd, res, err, errAt,
                   out, outcomes, elapsed, log>>

\* handle: the stub answers at once.
Handle(r) ==
    /\ pc[r] = "handler"
    /\ pc' = [pc EXCEPT ![r] = "map_response"]
    /\ hres' = [hres EXCEPT ![r] = TextResponse(StatusOk, HelloWorld)]
    /\ trace' = [trace EXCEPT ![r] = Append(@, "handler")]
    /\ UNCHANGED <<poolVars, reqVars, uri, inbody, buf, ext, fwd, matched, res,
                   err, errAt, out, outcomes, elapsed, log>>

\* map_response: the body of the response is read, logged if it is text, and
\* the response goes on with the same parts and a body of these bytes.
MapResponse(r) ==
    /\ pc[r] = "map_response"
    /\ LET got == buffer_and_print("response", to_bytes(hres[r].body))
       IN  /\ res' = [res EXCEPT ![r] = [hres[r] EXCEPT !.body = BodyFrom(got.bytes)]]
           /\ log' = [log EXCEPT ![r] = @ \o got.lines]
    /\ pc' = [pc EXCEPT ![r] = "handle_error"]
    /\ trace' = [trace EXCEPT ![r] = Append(@, "map_response")]
    /\ UNCHANGED <<poolVars, reqVars, uri, inbody, buf, ext, fwd, matched, hres,
                   err, errAt, out, outcomes, elapsed>>

\* map_response: reading the boxed body fails, and `?` returns the error.
\* (The body is a BoxBody, whose reads may fail by its type; the stub's body
\* is in memory.)
MapResponseFail(r) ==
    /\ pc[r] = "map_response"
    /\ pc' = [pc EXCEPT ![r] = "handle_error"]
    /\ err' = [err EXCEPT ![r] = "io"]
    /\ errAt' = [errAt EXCEPT ![r] = "response"]
    /\ trace' = [trace EXCEPT ![r] = Append(@, "map_response")]
    /\ UNCHANGED <<poolVars, reqVars, uri, inbody, buf, ext, fwd, matched, hres,
                   res, out, outcomes, elapsed, log>>

\* handle_error on the /api router: a response passes, an error becomes the
\* response of the closure.
HandleError(r) ==
    /\ pc[r] = "handle_error"
    /\ pc' = [pc EXCEPT ![r] = "map_404"]
    /\ res' = [res EXCEPT ![r] = IF err[r] = "none" THEN @ ELSE handle_error(err[r])]
    /\ err' = [err EXCEPT ![r] = "none"]
    /\ trace' = [trace EXCEPT ![r] = Append(@, "handle_error")]
    /\ UNCHANGED <<poolVars, reqVars, uri, inbody, buf, ext, fwd, matched, hres,
                   errAt, out, outcomes, elapsed, log>>

\* ------------------------------------------------------- the outer layers
\* MapResponseLayer::new(map_404) on the response of the outer router.
Map404(r) ==
    /\ pc[r] = "map_404"
    /\ pc' = [pc EXCEPT ![r] = "respond"]
    /\ res' = [res EXCEPT ![r] = map_404(@)]
    /\ trace' = [trace EXCEPT ![r] = Append(@, "map_404")]
    /\ UNCHANGED <<poolVars, reqVars, uri, inbody, buf, ext, fwd, matched, hres,
                   err, errAt, out, outcomes, elapsed, log>>

\* The inner service is ready: the Timeout future returns its response and
\* the server writes it to the client.
Respond(r) ==
    /\ pc[r] = "respond"
    /\ pc' = [pc EXCEPT ![r] = "done"]
    /\ out' = [out EXCEPT ![r] = [kind |-> "response", res |-> res[r]]]
    /\ outcomes' = [outcomes EXCEPT ![r] = @ + 1]
    /\ UNCHANGED <<poolVars, reqVars, uri, inbody, buf, ext, fwd, matched, hres,
                   res, err, errAt, elapsed, trace, log>>

\* The 15 seconds of a request pass while its task waits (the timer wakes a
\* waiting task; a task that is running reaches its next wait first).
DeadlineFires(r) ==
    /\ pc[r] \in Suspended
    /\ ~elapsed[r]
    /\ elapsed' = [elapsed EXCEPT ![r] = TRUE]
    /\ UNCHANGED <<poolVars, reqVars, pc, uri, inbody, buf, ext, fwd, matched,
                   hres, res, err, errAt, out, outcomes, trace, log>>

\* A variant that returns the error and goes on polling the inner service.
TimeoutElapsedKeepsInner(r) ==
    /\ pc[r] \in Suspended
    /\ elapsed[r]
    /\ out[r].kind = "none"
    /\ err' = [err EXCEPT ![r] = "Elapsed"]
    /\ out' = [out EXCEPT ![r] = [kind |-> "error", res |-> NoResponse]]
    /\ outcomes' = [outcomes EXCEPT ![r] = @ + 1]
    /\ UNCHANGED <<poolVars, reqVars, pc, uri, inbody, buf, ext, fwd, matched,
                   hres, res, errAt, elapsed, trace, log>>

\* The Timeout future is polled with the inner service waiting and the
\* deadline passed: it returns Err(Elapsed) and the inner future is dropped.
\* No layer outside Timeout turns the error into a response: the server
\* gets it and closes the connection.
TimeoutElapsed(r) ==
    /\ pc[r] \in Suspended
    /\ elapsed[r]
    /\ pc' = [pc EXCEPT ![r] = "done"]
    /\ err' = [err EXCEPT ![r] = "Elapsed"]
    /\ out' = [out EXCEPT ![r] = [kind |-> "error", res |-> NoResponse]]
    /\ outcomes' = [outcomes EXCEPT ![r] = @ + 1]
    /\ UNCHANGED <<poolVars, reqVars, uri, inbody, buf, ext, fwd, matched, hres,
                   res, errAt, elapsed, trace, log>>

\* The connection's task ends; the next request of the client starts anew.
Close(r) ==
    /\ pc[r] = "done"
    /\ pc' = [pc EXCEPT ![r] = "idle"]
    /\ method' = [method EXCEPT ![r] = ""]
    /\ path' = [path EXCEPT ![r] = <<>>]
    /\ uri' = [uri EXCEPT ![r] = <<>>]
    /\ reqBody' = [reqBody EXCEPT ![r] = <<>>]
    /\ inbody' = [inbody EXCEPT ![r] = <<>>]
    /\ buf' = [buf EXCEPT ![r] = <<>>]
    /\ ext' = [ext EXCEPT ![r] = {}]
    /\ fwd' = [fwd EXCEPT ![r] = NoRequest]
    /\ matched' = [matched EXCEPT ![r] = NoMatch]
    /\ hres' = [hres EXCEPT ![r] = NoResponse]
    /\ res' = [res EXCEPT ![r] = NoResponse]
    /\ err' = [err EXCEPT ![r] = "none"]
    /\ errAt' = [errAt EXCEPT ![r] = "none"]
    /\ out' = [out EXCEPT ![r] = NoOutput]
    /\ outcomes' = [outcomes EXCEPT ![r] = 0]
    /\ elapsed' = [elapsed EXCEPT ![r] = FALSE]
    /\ trace' = [trace EXCEPT ![r] = <<>>]
    /\ log' = [log EXCEPT ![r] = <<>>]
    /\ UNCHANGED poolVars

\* ------------------------------------------------------ the specifications
\* One client, every input.
Next ==
    \/ \E i \in InputSet : Accept(1, i[1], i[2], i[3])
    \/ TimeoutCall(1)
    \/ TraceCall(1)
    \/ AddExtension(1)
    \/ RouterCall(1)
    \/ \E o \in ServeOutcomes : ServeDir(1, o)
    \/ MapRequestRead(1)
    \/ MapRequestFail(1)
    \/ MapRequestDone(1)
    \/ ApiRoute(1)
    \/ Handle(1)
    \/ MapResponse(1)
    \/ MapResponseFail(1)
    \/ HandleError(1)
    \/ Map404(1)
    \/ Respond(1)
    \/ DeadlineFires(1)
    \/ TimeoutElapsed(1)
    \/ Close(1)

Spec == Init /\ [][Next]_vars

\* Several clients at once, a few inputs.
NextPool ==
    \E r \in Clients :
        \/ \E i \in PoolInputSet : Accept(r, i[1], i[2], i[3])
        \/ TimeoutCall(r)
        \/ TraceCall(r)
        \/ AddExtension(r)
        \/ RouterCall(r)
        \/ \E o \in ServeOutcomes : ServeDir(r, o)
        \/ MapRequestRead(r)
        \/ MapRequestFail(r)
        \/ MapRequestDone(r)
        \/ ApiRoute(r)
        \/ Handle(r)
        \/ MapResponse(r)
        \/ MapResponseFail(r)
        \/ HandleError(r)
        \/ Map404(r)
        \/ Respond(r)
        \/ DeadlineFires(r)
        \/ TimeoutElapsed(r)
        \/ Close(r)

SpecPool == Init /\ [][NextPool]_vars

\* ================================================================ claims
Passed(r, stage) == \E i \in 1..Len(trace[r]) : trace[r][i] = stage
Answered(r) == out[r].kind = "response"

\* {"msg": "request took too long"}
TimeoutJson ==
    <<123, 34, 109, 115, 103, 34, 58, 32, 34, 114, 101, 113, 117, 101, 115,
      116, 32, 116, 111, 111, 107, 32, 116, 111, 111, 32, 108, 111, 110, 103,
      34, 125>>
\* {"msg": "unhandled internal error"}
InternalJson ==
    <<123, 34, 109, 115, 103, 34, 58, 32, 34, 117, 110, 104, 97, 110, 100, 108,
      101, 100, 32, 105, 110, 116, 101, 114, 110, 97, 108, 32, 101, 114, 114,
      111, 114, 34, 125>>

\* C1: a request that does not complete before the deadline is answered
\* once, with status 408 and the body {"msg": "request took too long"}.
C1_TimeoutAnswered408 ==
    \A r \in Clients :
        (pc[r] = "done" /\ err[r] = "Elapsed") =>
            /\ Answered(r)
            /\ out[r].res.status = StatusRequestTimeout
            /\ Flatten(out[r].res.body) = TimeoutJson

\* C2: every accepted request ends with one response; no error reaches the
\* server unconverted.
C2_EveryRequestAnswered ==
    \A r \in Clients : pc[r] = "done" => (Answered(r) /\ outcomes[r] = 1)

\* ------------------------------------------------------------------- C3
\* The order the claim gives: injector, timeout, interceptor (request),
\* router dispatch, handler, interceptor (response), normalizer, rewriter.
ClaimedRank(stage) ==
    CASE stage = "add_extension" -> 1
      [] stage = "timeout" -> 2
      [] stage = "map_request" -> 3
      [] stage = "route" -> 4
      [] stage = "handler" -> 5
      [] stage = "map_response" -> 6
      [] stage = "handle_error" -> 7
      [] stage = "map_404" -> 8
      [] OTHER -> 0

ClaimedStages ==
    {"add_extension", "timeout", "map_request", "route", "handler",
     "map_response", "handle_error", "map_404"}

\* C3 as claimed: the stages run in the claimed order, and a finished
\* request has gone through every one of them.
C3_ClaimedOrder ==
    \A r \in Clients :
        /\ \A i, j \in 1..Len(trace[r]) :
              (i < j /\ trace[r][i] \in ClaimedStages /\ trace[r][j] \in ClaimedStages)
                  => ClaimedRank(trace[r][i]) < ClaimedRank(trace[r][j])
        /\ pc[r] = "done" => \A st \in ClaimedStages : Passed(r, st)

StageOrder ==
    <<"timeout", "trace", "add_extension", "router", "map_request", "route",
      "handler", "serve_dir", "map_response", "handle_error", "map_404">>

StageRank(stage) == CHOOSE i \in 1..Len(StageOrder) : StageOrder[i] = stage

UnderApi(r) == path[r] # <<>> /\ path[r][1] = "api"

\* The stages an answered request has gone through.
StagesOf(r) ==
    <<"timeout", "trace", "add_extension", "router">>
    \o (IF UnderApi(r)
        THEN <<"map_request">>
             \o (IF errAt[r] = "request" THEN <<>>
                 ELSE <<"route">>
                      \o (IF matched[r].kind = "handler" THEN <<"handler">> ELSE <<>>)
                      \o <<"map_response">>)
        ELSE <<"serve_dir">>)
    \o <<"handle_error", "map_404">>

\* C3, amended: the stages a request goes through are in the order timeout,
\* (trace,) pool extension, outer router, then under /api body interceptor
\* (request), route resolution, handler, body interceptor (response), and
\* elsewhere the file service, then error conversion and map_404. An answered
\* request has gone through exactly these, without the handler when no route
\* matched, and without routes, handler and response interceptor when the
\* request body could not be read; a request the timeout ended has gone
\* through a beginning of them.
C3_StagesInCodeOrder ==
    \A r \in Clients :
        /\ \A i, j \in 1..Len(trace[r]) :
              i < j => StageRank(trace[r][i]) < StageRank(trace[r][j])
        /\ Answered(r) => trace[r] = StagesOf(r)
        /\ (pc[r] = "done" /\ ~Answered(r)) =>
              (\/ trace[r] = <<"timeout", "trace", "add_extension", "router">>
               \/ trace[r] = <<"timeout", "trace", "add_extension", "router",
                               "map_request", "route">>
               \/ trace[r] = <<"timeout", "trace", "add_extension", "router",
                               "map_request", "route", "handler">>)

C3_Witness ==
    \E r \in Clients :
        /\ Answered(r)
        /\ trace[r] = <<"timeout", "trace", "add_extension", "router",
                        "map_request", "route", "handler", "map_response",
                        "handle_error", "map_404">>

\* ------------------------------------------------------------------- C4
\* The route table of the claim: the patterns with their prefixes joined.
RECURSIVE TableOf(_, _, _)
TableOf(router, i, prefix) ==
    IF i = 0 THEN {}
    ELSE LET e == router[i]
         IN  TableOf(router, i - 1, prefix)
             \cup (IF e.kind = "route"
                   THEN {[line |-> e.line, method |-> e.method,
                          pattern |-> prefix \o e.pattern]}
                   ELSE TableOf(e.router, Len(e.router), prefix \o e.pattern))

RouteTable == TableOf(ApiRouter, Len(ApiRouter), <<"api">>)

SegMatch(pattern, p) ==
    /\ Len(pattern) = Len(p)
    /\ \A i \in 1..Len(p) : pattern[i] = ":id" \/ pattern[i] = p[i]

Hits(r) ==
    {t \in RouteTable : t.method = method[r] /\ SegMatch(t.pattern, path[r])}

\* The request is for no registered route, or for a registered path with a
\* method the route does not accept: under /api by the route table, under
\* the file services by the method and by the file not being there.
Miss(r) ==
    IF UnderApi(r) THEN Hits(r) = {}
    ELSE method[r] # "GET" \/ matched[r].kind = "not_found"

IsCanonical404(response) ==
    /\ response.status = 404
    /\ response.headers = {<<"Content-Type", "application/json">>}
    /\ Flatten(response.body) = NotFoundJson

\* C4 as claimed: every such request that is answered is answered with the
\* canonical 404, and nobody receives 405.
C4_EveryMissIs404 ==
    \A r \in Clients :
        Answered(r) =>
            /\ out[r].res.status # 405
            /\ Miss(r) => IsCanonical404(out[r].res)

\* C4, amended: every such request that is answered, and on whose way no body
\* read failed, is answered with the canonical 404; nobody receives 405.
C4_MissIs404 ==
    \A r \in Clients :
        Answered(r) =>
            /\ out[r].res.status # 405
            /\ (Miss(r) /\ errAt[r] = "none") => IsCanonical404(out[r].res)

C4_Witness ==
    \E r \in Clients :
        /\ Answered(r) /\ UnderApi(r)
        /\ matched[r].kind = "method_not_allowed"
        /\ IsCanonical404(out[r].res)

\* ------------------------------------------------------------------- C5
\* C5: the Timeout service produces one result per request, a response or
\* the timeout, never both; once it has, the request's task is over, so
\* nothing that completes later is sent.
C5_OneOutcome ==
    \A r \in Clients :
        /\ outcomes[r] <= 1
        /\ outcomes[r] = 1 <=> pc[r] = "done"
        /\ out[r].kind # "none" <=> pc[r] = "done"
        /\ err[r] = "Elapsed" => (pc[r] = "done" /\ out[r].kind = "error")

\* The deadline passed while the request waited, and the response still won.
C5_Witness ==
    \E r \in Clients :
        /\ elapsed[r] /\ Answered(r)
        /\ out[r].res.status = 200 /\ outcomes[r] = 1

\* ------------------------------------------------------------------- C6
\* Over the alphabet of the bodies: text is what has every 195 followed by
\* 169 and every 169 after a 195.
IsText(bytes) ==
    \A i \in 1..Len(bytes) :
        /\ bytes[i] = 195 => (i < Len(bytes) /\ bytes[i + 1] = 169)
        /\ bytes[i] = 169 => (i > 1 /\ bytes[i - 1] = 195)

LinesOf(r, direction) == SelectSeq(log[r], LAMBDA l : l.direction = direction)

\* C6: the request the routes get has the bytes of the request body and the
\* same method, path and extensions; the response map_response returns has
\* the bytes and the parts of the response it was given; bytes that are not
\* text are not logged and pass all the same.
C6_Lossless ==
    \A r \in Clients :
        /\ Passed(r, "map_request") /\ errAt[r] # "request" =>
              /\ Flatten(fwd[r].body) = Flatten(reqBody[r])
              /\ fwd[r].method = method[r]
              /\ fwd[r].uri = Tail(path[r])
              /\ fwd[r].ext = ext[r]
              /\ LinesOf(r, "request") =
                    IF IsText(Flatten(reqBody[r]))
                    THEN <<[direction |-> "request", body |-> Flatten(reqBody[r])]>>
                    ELSE <<>>
        /\ Passed(r, "map_response") /\ errAt[r] # "response" /\ pc[r] = "handle_error" =>
              /\ Flatten(res[r].body) = Flatten(hres[r].body)
              /\ res[r].status = hres[r].status
              /\ res[r].headers = hres[r].headers
              /\ LinesOf(r, "response") =
                    <<[direction |-> "response", body |-> Flatten(hres[r].body)]>>

\* A body of two chunks that is not text has reached the routes unlogged.
C6_Witness ==
    \E r \in Clients :
        /\ pc[r] = "route"
        /\ Len(reqBody[r]) = 2
        /\ ~IsText(Flatten(reqBody[r]))
        /\ Flatten(fwd[r].body) = Flatten(reqBody[r])
        /\ log[r] = <<>>

\* ------------------------------------------------------------------- C7
BodyReadFailed(r) == errAt[r] \in {"request", "response"}

\* C7 as claimed: the client gets 500 with {"msg": "unhandled internal error"}.
C7_FailureAnsweredJson ==
    \A r \in Clients :
        (BodyReadFailed(r) /\ pc[r] = "done") =>
            /\ Answered(r)
            /\ out[r].res.status = 500
            /\ Flatten(out[r].res.body) = InternalJson

\* C7, amended: a failed request body read keeps the request from the routes,
\* the handler and map_response; a failed response body read keeps the
\* handler's response from the client; in both cases the client gets status
\* 500 with the text/plain body "Unhandled internal error".
C7_FailureAnswered500 ==
    \A r \in Clients :
        /\ errAt[r] = "request" =>
              /\ fwd[r] = NoRequest /\ matched[r] = NoMatch /\ hres[r] = NoResponse
              /\ ~Passed(r, "route") /\ ~Passed(r, "handler")
              /\ ~Passed(r, "map_response")
        /\ (BodyReadFailed(r) /\ pc[r] = "done") =>
              /\ Answered(r)
              /\ out[r].res.status = 500
              /\ out[r].res.headers = {<<"content-type", "text/plain">>}
              /\ Flatten(out[r].res.body) = InternalText
              /\ out[r].res # hres[r]

C7_Witness ==
    \E r \in Clients :
        /\ pc[r] = "done" /\ errAt[r] = "response"
        /\ matched[r].kind = "handler" /\ hres[r].status = 200
        /\ out[r].res.status = 500

\* ------------------------------------------------------------------- C8
\* C8: the step of map_404 replaces a response of status 404 or 405 by the
\* canonical one and leaves every other response as it is.
C8_RewritesOnly404And405 ==
    [][\A r \in Clients :
          (pc[r] = "map_404" /\ pc'[r] = "respond") =>
              IF res[r].status \in {404, 405}
              THEN IsCanonical404(res'[r])
              ELSE res'[r] = res[r]]_vars

C8_Witness ==
    \E r \in Clients :
        /\ pc[r] = "respond"
        /\ ~UnderApi(r) /\ matched[r].kind = "method_not_allowed"
        /\ IsCanonical404(res[r])

\* ------------------------------------------------------------------- C9
\* C9: a request whose method and path match a row of the route table is
\* dispatched to the route of that row, with the parameter bound to its
\* segment, and nothing else is dispatched; no two rows share method and
\* pattern.
C9_RegisteredRoutesResolve ==
    /\ \A t, u \in RouteTable :
          (t.method = u.method /\ t.pattern = u.pattern) => t = u
    /\ \A r \in Clients :
          Passed(r, "route") =>
              /\ Hits(r) # {} =>
                    /\ matched[r].kind = "handler"
                    /\ \A t \in Hits(r) :
                          /\ matched[r].line = t.line
                          /\ matched[r].params =
                                {<<"id", path[r][i]>> :
                                    i \in {j \in 1..Len(t.pattern) : t.pattern[j] = ":id"}}
              /\ matched[r].kind = "handler" => Hits(r) # {}

C9_Witness ==
    \E r \in Clients :
        /\ pc[r] = "handler"
        /\ path[r] = <<"api", "product", "update", "42">>
        /\ matched[r].line = 99
        /\ matched[r].params = {<<"id", "42">>}

\* ------------------------------------------------------------------ C10
\* C10: one pool is built; every request past the extension layer carries
\* the handle of that pool, under /api and under the file services alike;
\* nothing is checked out by the pipeline, so the checked-out connections
\* never exceed pool_size.
C10_PoolSharedAndBounded ==
    /\ pools = 1
    /\ pool.checked_out = 0
    /\ pool.checked_out <= pool.max_size
    /\ \A r \in Clients :
          /\ Passed(r, "add_extension") => ext[r] = {pool.id}
          /\ Passed(r, "route") => fwd[r].ext = {pool.id}

\* Two requests in flight at once, one at the handler and one at a file
\* service, with the same handle.
C10_Witness ==
    \E r, q \in Clients :
        /\ r # q
        /\ pc[r] = "handler" /\ pc[q] = "serve_dir"
        /\ ext[r] = {pool.id} /\ ext[q] = ext[r]

====
